---- MODULE Spec2Model ----
(***************************************************************************)
(* A model of hasher.py: the checksum-manifest parser                      *)
(* (parse_checksum_file), the process-pool dispatcher (_hash_paths with    *)
(* its completion callback _done and the task body _process) and the       *)
(* verification pass of main.                                              *)
(*                                                                         *)
(* Strings are sequences of one-character strings.  Python's None is the   *)
(* value None below, which no string equals.                               *)
(***************************************************************************)
EXTENDS Naturals, Sequences, FiniteSets

VARIABLES
    text,             \* parse_checksum_file: s, the manifest's text
    matches,          \* main: the list of regex matches
    vpc,              \* main: position in the verification branch
    paths,            \* main / _hash_paths: the paths to hash
    expected_keys,    \* main: expected_hashes' keys in dict (insertion) order
    expected_hashes,  \* main: input_name -> Hashed from the manifest
    actual_hashes,    \* main: input_name -> Hashed from hashed_lst
    ki,               \* main: index of the reconciliation loop
    ok,               \* main: list ok
    error,            \* main: list error
    mismatch,         \* main: list mismatch
    reported,         \* main: the totals printed to stderr
    parallel,         \* prog_args.parallel
    progressOn,       \* task_id is not None and progress is not None
    taskState,        \* per submitted path: the state of its work item / future
    cbReg,            \* futures whose _done_callbacks holds _done
    resultQ,          \* the pool's result queue (task indices, FIFO)
    pcMain,           \* the thread that called _hash_paths
    nextI,            \* index of the path the submit loop is at
    mgrPc,            \* the executor's manager thread
    mgrTask,          \* the future the manager thread is completing
    cb,               \* per thread: the stage of the _done call it is in
    hashed_lst,       \* the shared result list
    advance,          \* progress sink: number of advance=1 events
    description,      \* progress sink: the task's description
    writers           \* threads that have appended to hashed_lst

vars == <<text, matches, vpc, paths, expected_keys, expected_hashes,
          actual_hashes, ki, ok, error, mismatch, reported, parallel,
          progressOn, taskState, cbReg, resultQ, pcMain, nextI, mgrPc,
          mgrTask, cb, hashed_lst, advance, description, writers>>

mainVars == <<text, matches, vpc, expected_keys, expected_hashes,
              actual_hashes, ki, ok, error, mismatch, reported>>

poolVars == <<parallel, progressOn, taskState, cbReg, resultQ, pcMain, nextI,
              mgrPc, mgrTask, cb, advance, description, writers>>

----------------------------------------------------------------------------
(* Bounds of the model. *)

MaxTextLen == 5
MaxRecords == 2
MaxPaths == 3
MaxParallel == 2
MaxNameLen == 44

(* Program constants. *)

DisplayWidth == 40
HeadLen == 18
TailLen == 19

----------------------------------------------------------------------------
(* Strings. *)

None == <<"None">>

Min(S) == CHOOSE x \in S : \A y \in S : x <= y

BoundedSeq(S, n) == UNION {[1..k -> S] : k \in 0..n}

Spaces(n) == [i \in 1..n |-> " "]

Ellipsis == <<".", ".", ".">>

LowerChar(c) ==
    CASE c = "A" -> "a"
      [] c = "B" -> "b"
      [] c = "C" -> "c"
      [] c = "D" -> "d"
      [] c = "E" -> "e"
      [] c = "F" -> "f"
      [] OTHER -> c

Lower(s) == [i \in 1..Len(s) |-> LowerChar(s[i])]

----------------------------------------------------------------------------
(* The file system the run sees and the task body. *)

FileA == <<"a">>
DirD == <<"d">>
MissingX == <<"x">>
UnreadableU == <<"u">>

FileB == <<"b">>

\* the paths given to _hash_paths
PathNames == {FileA, DirD, MissingX, UnreadableU}

\* os.path.exists
Exists(path) == path # MissingX

\* os.path.isfile
IsFile(path) == path \notin {MissingX, DirD}

\* open(path, 'rb') and the reads succeed
Readable(path) == path # UnreadableU

AlgoName == <<"sha256">>

\* _hash_stream(...).hexdigest(): the digest of the file's bytes, in lowercase
\* hex
HexDigest(path) == IF path = FileA THEN <<"a", "1">> ELSE <<"b", "2">>

NotExists == <<"N", "o", "t", " ", "e", "x", "i", "s", "t", "s">>

Hashed(input_name, algo, hex, mode, err) ==
    [tag |-> "Hashed", input_name |-> input_name, algo |-> algo, hex |-> hex,
     mode |-> mode, err |-> err]

\* _process: what the future of a path ends with
Process(path) ==
    LET ret == IF ~Exists(path)
                 THEN Hashed(path, None, None, None, NotExists)
                 ELSE [tag |-> "None"]
    IN  IF IsFile(path)
          THEN IF Readable(path)
                 THEN Hashed(path, AlgoName, HexDigest(path), <<"b">>, None)
                 ELSE [tag |-> "Raise"]
          ELSE ret

----------------------------------------------------------------------------
(* _done's display name. *)

\* DisplayName with the tail slice starting one character early
DisplayNameLongTail(input_name) ==
    LET n == Len(input_name)
        name1 == IF n > DisplayWidth
                   THEN SubSeq(input_name, 1, HeadLen) \o Ellipsis
                        \o SubSeq(input_name, n - TailLen, n)
                   ELSE input_name
    IN  IF n < DisplayWidth THEN name1 \o Spaces(DisplayWidth - n) ELSE name1

DisplayName(input_name) ==
    LET n == Len(input_name)
        name1 == IF n > DisplayWidth
                   THEN SubSeq(input_name, 1, HeadLen) \o Ellipsis
                        \o SubSeq(input_name, n - TailLen + 1, n)
                   ELSE input_name
    IN  IF n < DisplayWidth THEN name1 \o Spaces(DisplayWidth - n) ELSE name1

----------------------------------------------------------------------------
(* parse_checksum_file: the regular expression                             *)
(*   ^(?P<hex>.+?)\s(?P<mode>\s|[*])(?P<input_name>.+)$   (re.MULTILINE)   *)
(* Positions are 1-based; a match's stop is the position after its end.    *)

TextAlphabet == {"a", "*", " ", "\t", "\n"}

\* \s
IsWs(c) == c \in {" ", "\t", "\n"}

\* .
IsDot(c) == c # "\n"

\* ^ under MULTILINE
AtLineStart(s, p) == p = 1 \/ s[p - 1] = "\n"

\* the end of the run of . characters starting at p: where .+$ stops
RunEnd(s, p) ==
    Min({e \in p..(Len(s) + 1) : e = Len(s) + 1 \/ ~IsDot(s[e])})

\* the lengths k of hex with which the pattern matches at p
HexLens(s, p) ==
    {k \in 1..Len(s) :
        /\ p + k + 2 <= Len(s)
        /\ \A i \in p..(p + k - 1) : IsDot(s[i])
        /\ IsWs(s[p + k])
        /\ IsWs(s[p + k + 1]) \/ s[p + k + 1] = "*"
        /\ IsDot(s[p + k + 2])}

\* the match at p: .+? takes the shortest hex, .+ runs to the end of the line
MatchAt(s, p) ==
    LET k == Min(HexLens(s, p))
        e == RunEnd(s, p + k + 2)
    IN  [hex |-> SubSeq(s, p, p + k - 1),
         sep |-> s[p + k],
         mode |-> s[p + k + 1],
         input_name |-> SubSeq(s, p + k + 2, e - 1),
         start |-> p,
         stop |-> e]

RECURSIVE FindIter(_, _)
\* pattern.finditer(s) from position p on
FindIter(s, p) ==
    IF p > Len(s)
      THEN <<>>
      ELSE IF AtLineStart(s, p) /\ HexLens(s, p) # {}
             THEN <<MatchAt(s, p)>> \o FindIter(s, MatchAt(s, p).stop)
             ELSE FindIter(s, p + 1)

----------------------------------------------------------------------------
(* main, the branch taken with a checksum file (lines 128-136, 153-210).   *)

Max(S) == CHOOSE x \in S : \A y \in S : x >= y

Range(f) == {f[i] : i \in DOMAIN f}

\* the keys of a dict built from seq, in the dict's order: a key keeps the
\* place of its first insertion
DictKeys(seq) ==
    SelectSeq([i \in 1..Len(seq) |->
                  IF \E j \in 1..(i - 1) : seq[j] = seq[i] THEN None ELSE seq[i]],
              LAMBDA x : x # None)

\* the index of the last item of seq inserted under key: the one the dict keeps
LastIndex(seq, key) == Max({i \in 1..Len(seq) : seq[i] = key})

MainIdle ==
    /\ text = <<>>
    /\ matches = <<>>
    /\ vpc = "idle"
    /\ expected_keys = <<>>
    /\ expected_hashes = <<>>
    /\ actual_hashes = <<>>
    /\ ki = 0
    /\ ok = <<>>
    /\ error = <<>>
    /\ mismatch = <<>>
    /\ reported = [total |-> 0, ok |-> 0, error |-> 0, mismatch |-> 0]

\* line 129: matches = [m for m in parse_checksum_file(...)]
ParseChecksumFile ==
    /\ vpc = "parse"
    /\ matches' = FindIter(text, 1)
    /\ vpc' = "build"
    /\ UNCHANGED <<text, paths, expected_keys, expected_hashes, actual_hashes,
                   ki, ok, error, mismatch, reported, hashed_lst>>
    /\ UNCHANGED poolVars

\* lines 130-136: paths and the dict expected_hashes
BuildExpected ==
    /\ vpc = "build"
    /\ LET names == [i \in 1..Len(matches) |-> matches[i].input_name]
       IN  /\ paths' = names
           /\ expected_keys' = DictKeys(names)
           /\ expected_hashes' =
                [n \in Range(names) |->
                    LET d == matches[LastIndex(names, n)]
                    IN  Hashed(d.input_name, None, d.hex,
                               IF d.mode = "*" THEN <<"b">> ELSE <<"t">>, None)]
    /\ vpc' = "hash"
    /\ UNCHANGED <<text, matches, actual_hashes, ki, ok, error, mismatch,
                   reported, hashed_lst>>
    /\ UNCHANGED poolVars

Perms(n) == {f \in [1..n -> 1..n] : \A i, j \in 1..n : f[i] = f[j] => i = j}

\* lines 176/178: the call of _hash_paths, by its outcome: the exception of a
\* task leaves through line 78; otherwise hashed_lst holds the Hashed of every
\* path whose task returned one, in completion order
HashPaths ==
    /\ vpc = "hash"
    /\ \E f \in Perms(Len(paths)) :
          hashed_lst' = hashed_lst \o
              SelectSeq([i \in 1..Len(paths) |-> Process(paths[f[i]])],
                        LAMBDA r : r.tag = "Hashed")
    /\ vpc' = IF \E i \in 1..Len(paths) : Process(paths[i]).tag = "Raise"
                THEN "raised"
                ELSE "index"
    /\ UNCHANGED <<text, matches, paths, expected_keys, expected_hashes,
                   actual_hashes, ki, ok, error, mismatch, reported>>
    /\ UNCHANGED poolVars

\* lines 180-187: the lists and the dict actual_hashes
IndexActual ==
    /\ vpc = "index"
    /\ LET names == [i \in 1..Len(hashed_lst) |-> hashed_lst[i].input_name]
       IN  actual_hashes' =
              [n \in Range(names) |-> hashed_lst[LastIndex(names, n)]]
    /\ ok' = <<>>
    /\ error' = <<>>
    /\ mismatch' = <<>>
    /\ ki' = 1
    /\ vpc' = "loop"
    /\ UNCHANGED <<text, matches, paths, expected_keys, expected_hashes,
                   reported, hashed_lst>>
    /\ UNCHANGED poolVars

NoCandidate == <<"N", "o", " ", "c", "a", "n", "d", "i", "d", "a", "t", "e", "?">>

\* ReconcileStep with the hex comparison outside the else of line 195
ReconcileStepNoElse ==
    /\ vpc = "loop"
    /\ ki <= Len(expected_keys)
    /\ LET filename == expected_keys[ki]
           expected == expected_hashes[filename]
       IN  IF filename \notin DOMAIN actual_hashes
             THEN /\ error' = Append(error, [filename |-> filename,
                                             reason |-> NoCandidate])
                  /\ vpc' = "KeyError"
                  /\ UNCHANGED <<ok, mismatch, ki>>
             ELSE LET actual == actual_hashes[filename]
                  IN  /\ error' = IF actual.err # None /\ Len(actual.err) > 0
                                    THEN Append(error,
                                                [filename |-> filename,
                                                 reason |-> actual.err])
                                    ELSE error
                      /\ IF expected.hex = actual.hex
                           THEN /\ ok' = Append(ok, filename)
                                /\ UNCHANGED mismatch
                           ELSE /\ mismatch' = Append(mismatch, filename)
                                /\ UNCHANGED ok
                      /\ ki' = ki + 1
                      /\ vpc' = "loop"
    /\ UNCHANGED <<text, matches, paths, expected_keys, expected_hashes,
                   actual_hashes, reported, hashed_lst>>
    /\ UNCHANGED poolVars

\* lines 188-199: one iteration of the loop over expected_hashes.items()
ReconcileStep ==
    /\ vpc = "loop"
    /\ ki <= Len(expected_keys)
    /\ LET filename == expected_keys[ki]
           expected == expected_hashes[filename]
       IN  IF filename \notin DOMAIN actual_hashes
             THEN \* line 191, then line 192 raises KeyError
                  /\ error' = Append(error, [filename |-> filename,
                                             reason |-> NoCandidate])
                  /\ vpc' = "KeyError"
                  /\ UNCHANGED <<ok, mismatch, ki>>
             ELSE LET actual == actual_hashes[filename]
                  IN  /\ IF actual.err # None /\ Len(actual.err) > 0
                           THEN /\ error' = Append(error,
                                                   [filename |-> filename,
                                                    reason |-> actual.err])
                                /\ UNCHANGED <<ok, mismatch>>
                           ELSE IF expected.hex = actual.hex
                                  THEN /\ ok' = Append(ok, filename)
                                       /\ UNCHANGED <<error, mismatch>>
                                  ELSE /\ mismatch' = Append(mismatch, filename)
                                       /\ UNCHANGED <<ok, error>>
                      /\ ki' = ki + 1
                      /\ vpc' = "loop"
    /\ UNCHANGED <<text, matches, paths, expected_keys, expected_hashes,
                   actual_hashes, reported, hashed_lst>>
    /\ UNCHANGED poolVars

\* lines 201-210: the lists are printed, then the totals
Report ==
    /\ vpc = "loop"
    /\ ki > Len(expected_keys)
    /\ reported' = [total |-> Cardinality(DOMAIN expected_hashes),
                    ok |-> Len(ok),
                    error |-> Len(error),
                    mismatch |-> Len(mismatch)]
    /\ vpc' = "reported"
    /\ UNCHANGED <<text, matches, paths, expected_keys, expected_hashes,
                   actual_hashes, ki, ok, error, mismatch, hashed_lst>>
    /\ UNCHANGED poolVars

----------------------------------------------------------------------------
(* _hash_paths (lines 53-78): the calling thread, the pool's worker        *)
(* processes, and the executor's manager thread, which takes each result   *)
(* off the result queue, completes its future and runs the callbacks       *)
(* registered on it.  add_done_callback on a future that is already        *)
(* finished runs the callback at once, in the calling thread.              *)

Threads == {"main", "mgr"}

NoCall == [stage |-> "none", task |-> 0]

PoolIdle ==
    /\ parallel = 1
    /\ progressOn = FALSE
    /\ taskState = <<>>
    /\ cbReg = {}
    /\ resultQ = <<>>
    /\ pcMain = "idle"
    /\ nextI = 0
    /\ mgrPc = "idle"
    /\ mgrTask = 0
    /\ cb = [th \in Threads |-> NoCall]
    /\ advance = 0
    /\ description = <<>>
    /\ writers = {}

\* line 175: description='Hashing...'
Hashing == <<"H", "a", "s", "h", "i", "n", "g", ".", ".", ".">>

\* line 71: max_workers
PoolSize == IF parallel < 1 THEN 1 ELSE parallel

\* the state _hash_paths is entered in, for the given arguments
PoolStart(ps, par, prog) ==
    /\ paths = ps
    /\ parallel = par
    /\ progressOn = prog
    /\ taskState = [i \in 1..Len(ps) |-> "new"]
    /\ cbReg = {}
    /\ resultQ = <<>>
    /\ pcMain = IF Len(ps) = 0 THEN "wait" ELSE "submit"
    /\ nextI = 1
    /\ mgrPc = "idle"
    /\ mgrTask = 0
    /\ cb = [th \in Threads |-> NoCall]
    /\ hashed_lst = <<>>
    /\ advance = 0
    /\ description = Hashing
    /\ writers = {}

\* lines 55-57, 67: _done up to its first effect on shared state.  A task's
\* exception is raised again by _future.result() and ends the call
DoneEnter(t) ==
    LET result == Process(paths[t])
    IN  IF result.tag = "Raise"
          THEN NoCall
          ELSE IF progressOn
                 THEN [stage |-> "update", task |-> t]
                 ELSE IF result.tag = "Hashed"
                        THEN [stage |-> "append", task |-> t]
                        ELSE NoCall

\* where a thread goes on when its call of _done is over
Resume(th) ==
    IF th = "main"
      THEN /\ nextI' = nextI + 1
           /\ pcMain' = IF nextI = Len(paths) THEN "wait" ELSE "submit"
           /\ UNCHANGED <<mgrPc, mgrTask>>
      ELSE /\ mgrPc' = "idle"
           /\ mgrTask' = 0
           /\ UNCHANGED <<nextI, pcMain>>

Stay(th) == UNCHANGED <<nextI, pcMain, mgrPc, mgrTask>>

\* line 73: executor.submit
Submit ==
    /\ pcMain = "submit"
    /\ taskState' = [taskState EXCEPT ![nextI] = "queued"]
    /\ pcMain' = "addcb"
    /\ UNCHANGED <<paths, parallel, progressOn, cbReg, resultQ, nextI, mgrPc,
                   mgrTask, cb, hashed_lst, advance, description, writers>>
    /\ UNCHANGED mainVars

\* line 74: future.add_done_callback
AddDoneCallback ==
    /\ pcMain = "addcb"
    /\ IF taskState[nextI] # "finished"
         THEN /\ cbReg' = cbReg \cup {nextI}
              /\ cb' = cb
              /\ Resume("main")
         ELSE /\ cbReg' = cbReg
              /\ cb' = [cb EXCEPT !["main"] = DoneEnter(nextI)]
              /\ IF DoneEnter(nextI) = NoCall
                   THEN Resume("main")
                   ELSE /\ pcMain' = "callback"
                        /\ UNCHANGED <<nextI, mgrPc, mgrTask>>
    /\ UNCHANGED <<paths, parallel, progressOn, taskState, resultQ,
                   hashed_lst, advance, description, writers>>
    /\ UNCHANGED mainVars

\* a worker process takes the next queued call
WorkerStart ==
    /\ \E i \in 1..Len(paths) : taskState[i] = "queued"
    /\ Cardinality({i \in 1..Len(paths) : taskState[i] = "running"}) < PoolSize
    /\ LET t == Min({i \in 1..Len(paths) : taskState[i] = "queued"})
       IN  taskState' = [taskState EXCEPT ![t] = "running"]
    /\ UNCHANGED <<paths, parallel, progressOn, cbReg, resultQ, pcMain, nextI,
                   mgrPc, mgrTask, cb, hashed_lst, advance, description,
                   writers>>
    /\ UNCHANGED mainVars

\* a worker process ends _process(path) and sends what it ended with
WorkerFinish(t) ==
    /\ taskState[t] = "running"
    /\ taskState' = [taskState EXCEPT ![t] = "computed"]
    /\ resultQ' = Append(resultQ, t)
    /\ UNCHANGED <<paths, parallel, progressOn, cbReg, pcMain, nextI, mgrPc,
                   mgrTask, cb, hashed_lst, advance, description, writers>>
    /\ UNCHANGED mainVars

\* the manager thread: future.set_result / set_exception, the state change
ManagerSetResult ==
    /\ mgrPc = "idle"
    /\ resultQ # <<>>
    /\ taskState' = [taskState EXCEPT ![Head(resultQ)] = "finished"]
    /\ resultQ' = Tail(resultQ)
    /\ mgrTask' = Head(resultQ)
    /\ mgrPc' = "invoke"
    /\ UNCHANGED <<paths, parallel, progressOn, cbReg, pcMain, nextI, cb,
                   hashed_lst, advance, description, writers>>
    /\ UNCHANGED mainVars

\* the manager thread: the future's _invoke_callbacks
ManagerInvoke ==
    /\ mgrPc = "invoke"
    /\ IF mgrTask \in cbReg /\ DoneEnter(mgrTask) # NoCall
         THEN /\ cb' = [cb EXCEPT !["mgr"] = DoneEnter(mgrTask)]
              /\ mgrPc' = "callback"
              /\ mgrTask' = mgrTask
         ELSE /\ cb' = cb
              /\ mgrPc' = "idle"
              /\ mgrTask' = 0
    /\ UNCHANGED <<paths, parallel, progressOn, taskState, cbReg, resultQ,
                   pcMain, nextI, hashed_lst, advance, description,
                   writers>>
    /\ UNCHANGED mainVars

\* lines 57-65: progress.update
DoneUpdate(th) ==
    /\ cb[th].stage = "update"
    /\ LET result == Process(paths[cb[th].task])
       IN  /\ advance' = advance + 1
           /\ IF result.tag = "None"
                THEN /\ description' = description
                     /\ cb' = [cb EXCEPT ![th] = NoCall]
                     /\ Resume(th)
                ELSE /\ description' = DisplayName(result.input_name)
                     /\ cb' = [cb EXCEPT ![th].stage = "append"]
                     /\ Stay(th)
    /\ UNCHANGED <<paths, parallel, progressOn, taskState, cbReg, resultQ,
                   hashed_lst, writers>>
    /\ UNCHANGED mainVars

\* lines 67-68: hashed_lst.append(result)
DoneAppend(th) ==
    /\ cb[th].stage = "append"
    /\ hashed_lst' = Append(hashed_lst, Process(paths[cb[th].task]))
    /\ writers' = writers \cup {th}
    /\ cb' = [cb EXCEPT ![th] = NoCall]
    /\ Resume(th)
    /\ UNCHANGED <<paths, parallel, progressOn, taskState, cbReg, resultQ,
                   advance, description>>
    /\ UNCHANGED mainVars

Raises(i) == Process(paths[i]).tag = "Raise"

\* line 78: f.result() for each future in submission order; the first one
\* that ended with an exception raises it
WaitAll ==
    /\ pcMain = "wait"
    /\ LET bad == {i \in 1..Len(paths) : Raises(i)}
       IN  IF bad = {}
             THEN /\ \A i \in 1..Len(paths) : taskState[i] = "finished"
                  /\ pcMain' = "exit"
             ELSE /\ \A i \in 1..Min(bad) : taskState[i] = "finished"
                  /\ pcMain' = "exit_raising"
    /\ UNCHANGED <<paths, parallel, progressOn, taskState, cbReg, resultQ,
                   nextI, mgrPc, mgrTask, cb, hashed_lst, advance, description,
                   writers>>
    /\ UNCHANGED mainVars

\* Shutdown as executor.shutdown(wait=False) would be: the manager thread is
\* not joined
ShutdownNoWait ==
    /\ pcMain \in {"exit", "exit_raising"}
    /\ pcMain' = IF pcMain = "exit" THEN "returned" ELSE "raised"
    /\ UNCHANGED <<paths, parallel, progressOn, taskState, cbReg, resultQ,
                   nextI, mgrPc, mgrTask, cb, hashed_lst, advance, description,
                   writers>>
    /\ UNCHANGED mainVars

\* line 71, the end of the with block: executor.shutdown(wait=True) joins the
\* manager thread, which ends once no work item is pending
Shutdown ==
    /\ pcMain \in {"exit", "exit_raising"}
    /\ \A i \in 1..Len(paths) : taskState[i] = "finished"
    /\ mgrPc = "idle"
    /\ pcMain' = IF pcMain = "exit" THEN "returned" ELSE "raised"
    /\ UNCHANGED <<paths, parallel, progressOn, taskState, cbReg, resultQ,
                   nextI, mgrPc, mgrTask, cb, hashed_lst, advance, description,
                   writers>>
    /\ UNCHANGED mainVars

----------------------------------------------------------------------------
(* Specifications. *)

\* _hash_paths over a list of paths
Init ==
    /\ MainIdle
    /\ \E ps \in BoundedSeq(PathNames, MaxPaths), par \in 0..MaxParallel,
          prog \in BOOLEAN :
          PoolStart(ps, par, prog)

Next ==
    \/ Submit
    \/ AddDoneCallback
    \/ WorkerStart
    \/ \E t \in 1..Len(paths) : WorkerFinish(t)
    \/ ManagerSetResult
    \/ ManagerInvoke
    \/ \E th \in Threads : DoneUpdate(th)
    \/ \E th \in Threads : DoneAppend(th)
    \/ WaitAll
    \/ Shutdown

Spec == Init /\ [][Next]_vars

\* a run of main with a checksum file, from the parsed matches on
ManifestHexes == {<<"a", "1">>, <<"A", "1">>, <<"b", "2">>}

ManifestNames == {FileA, FileB, DirD, MissingX, UnreadableU}

ManifestRecords ==
    [hex : ManifestHexes, mode : {"*", " "}, input_name : ManifestNames]

InitVerify ==
    /\ PoolIdle
    /\ text = <<>>
    /\ matches \in BoundedSeq(ManifestRecords, MaxRecords)
    /\ vpc = "build"
    /\ paths = <<>>
    /\ hashed_lst = <<>>
    /\ expected_keys = <<>>
    /\ expected_hashes = <<>>
    /\ actual_hashes = <<>>
    /\ ki = 0
    /\ ok = <<>>
    /\ error = <<>>
    /\ mismatch = <<>>
    /\ reported = [total |-> 0, ok |-> 0, error |-> 0, mismatch |-> 0]

NextVerify ==
    \/ BuildExpected
    \/ HashPaths
    \/ IndexActual
    \/ ReconcileStep
    \/ Report

SpecVerify == InitVerify /\ [][NextVerify]_vars

\* the manifest's text parsed and turned into paths and expected_hashes
InitParse ==
    /\ PoolIdle
    /\ text \in BoundedSeq(TextAlphabet, MaxTextLen)
    /\ matches = <<>>
    /\ vpc = "parse"
    /\ paths = <<>>
    /\ hashed_lst = <<>>
    /\ expected_keys = <<>>
    /\ expected_hashes = <<>>
    /\ actual_hashes = <<>>
    /\ ki = 0
    /\ ok = <<>>
    /\ error = <<>>
    /\ mismatch = <<>>
    /\ reported = [total |-> 0, ok |-> 0, error |-> 0, mismatch |-> 0]

NextParse ==
    \/ ParseChecksumFile
    \/ BuildExpected

SpecParse == InitParse /\ [][NextParse]_vars

\* _hash_paths with a progress bar over one readable file, for names of
\* every length up to MaxNameLen
DisplayAlphabet == <<"p", "q", "r", "s", "t", "v", "w">>

DisplayInput(n, k) ==
    [i \in 1..n |-> DisplayAlphabet[((i * k) % Len(DisplayAlphabet)) + 1]]

InitDisplay ==
    /\ MainIdle
    /\ \E n \in 1..MaxNameLen, k \in 1..3 :
          PoolStart(<<DisplayInput(n, k)>>, 1, TRUE)

SpecDisplay == InitDisplay /\ [][Next]_vars

----------------------------------------------------------------------------
(* Properties. *)

CountIn(seq, x) == Cardinality({i \in 1..Len(seq) : seq[i] = x})

ResultNames == [i \in 1..Len(hashed_lst) |-> hashed_lst[i].input_name]

\* _hash_paths has been left, by return or by exception
Ended == pcMain \in {"returned", "raised"}

InCallback(th) == cb[th] # NoCall

\* What HashPaths takes the call of _hash_paths to do (checked under Spec):
\* the call raises iff some task raised, and either way the list then holds
\* exactly the Hashed that the tasks returned
HashPathsOutcome ==
    Ended =>
        /\ (pcMain = "raised") = (\E i \in 1..Len(paths) : Raises(i))
        /\ \A i \in 1..Len(hashed_lst) :
              hashed_lst[i] = Process(hashed_lst[i].input_name)
        /\ \A n \in PathNames :
              CountIn(ResultNames, n) =
                 IF Process(n).tag = "Hashed" THEN CountIn(paths, n) ELSE 0

\* C1: when _hash_paths returns for paths that all name existing regular
\* files, every task has completed, no thread is inside _done, and hashed_lst
\* holds exactly one result per submitted task: as many results under each
\* name as paths were submitted under it, each the digest of that file.
C1_AllResultsCollected ==
    (/\ pcMain = "returned"
     /\ \A i \in 1..Len(paths) : Exists(paths[i]) /\ IsFile(paths[i]))
    =>
        /\ \A i \in 1..Len(paths) : taskState[i] = "finished"
        /\ resultQ = <<>>
        /\ mgrPc = "idle"
        /\ \A th \in Threads : ~InCallback(th)
        /\ Len(hashed_lst) = Len(paths)
        /\ \A n \in PathNames : CountIn(ResultNames, n) = CountIn(paths, n)
        /\ \A i \in 1..Len(hashed_lst) :
              /\ hashed_lst[i].hex = HexDigest(hashed_lst[i].input_name)
              /\ hashed_lst[i].err = None

\* C1's case: MaxPaths readable files hashed by more than one worker, with
\* results appended both by the calling thread and by the manager thread.
C1_Witness ==
    /\ pcMain = "returned"
    /\ Len(paths) = MaxPaths
    /\ \A i \in 1..Len(paths) : paths[i] = FileA
    /\ PoolSize > 1
    /\ writers = Threads
    /\ Len(hashed_lst) = MaxPaths

\* C2: once _hash_paths has returned, every submitted path that is missing or
\* is not a regular file has its own result in hashed_lst, with err set and
\* hex unset.
C2_BadPathsBecomeErrorResults ==
    pcMain = "returned" =>
        \A n \in PathNames :
            ~IsFile(n) =>
                /\ CountIn(ResultNames, n) = CountIn(paths, n)
                /\ \A i \in 1..Len(hashed_lst) :
                      hashed_lst[i].input_name = n =>
                          /\ hashed_lst[i].err # None
                          /\ hashed_lst[i].hex = None

\* C3: a task that raises does not make _hash_paths raise; when the call is
\* over every sibling's result is collected and the failing path has a
\* result with err set.
C3_TaskFailureIsContained ==
    Ended =>
        /\ pcMain = "returned"
        /\ \A n \in PathNames :
              CountIn(ResultNames, n) =
                 IF Process(n).tag = "None" THEN 0 ELSE CountIn(paths, n)
        /\ \A i \in 1..Len(hashed_lst) :
              ~Readable(hashed_lst[i].input_name) => hashed_lst[i].err # None

\* C7: with a progress sink attached, when the run is over the number of
\* advance events equals the number of submitted paths.
C7_OneAdvancePerTask ==
    (Ended /\ progressOn) => advance = Len(paths)

\* C9: two calls of _done are never in progress at once, and all appends to
\* hashed_lst are made by one thread.
C9_CallbacksSerialSingleWriter ==
    /\ ~(InCallback("main") /\ InCallback("mgr"))
    /\ Cardinality(writers) <= 1

\* C10: the description _done hands to the progress sink is exactly 40
\* characters: a longer name is its first 18 characters, "..." and its last
\* 19 characters; a shorter name is followed by spaces up to 40; a name of 40
\* characters is unchanged.
C10_DisplayNameWidth ==
    (advance > 0 /\ Len(paths) = 1) =>
        LET name == paths[1]
            n == Len(name)
        IN  /\ Len(description) = 40
            /\ n > 40 =>
                  /\ \A i \in 1..18 : description[i] = name[i]
                  /\ \A i \in 19..21 : description[i] = "."
                  /\ \A i \in 1..19 : description[21 + i] = name[n - 19 + i]
            /\ n < 40 =>
                  /\ \A i \in 1..n : description[i] = name[i]
                  /\ \A i \in (n + 1)..40 : description[i] = " "
            /\ n = 40 => description = name

\* C10's case: a name longer than 40 characters has been displayed.
C10_Witness ==
    /\ advance = 1
    /\ Len(paths) = 1
    /\ Len(paths[1]) > 40
    /\ description # Hashing

\* C8: every match lies within one line of the text, its separator is one
\* whitespace character and its marker is '*' or a space, the mode is binary
\* iff the marker is '*', hex is the shortest prefix before such a separator,
\* input_name is the rest of the line, matches come in line order, and a
\* text without such a line gives no match.
C8_RecordsAreSingleLines ==
    vpc # "parse" =>
        /\ \A i \in 1..Len(matches) :
              LET m == matches[i]
              IN  /\ AtLineStart(text, m.start)
                  /\ \A j \in m.start..(m.stop - 1) : text[j] # "\n"
                  /\ m.stop = Len(text) + 1 \/ text[m.stop] = "\n"
                  /\ IsWs(m.sep)
                  /\ m.mode \in {"*", " "}
                  /\ m.start + Len(m.hex) + 2 + Len(m.input_name) = m.stop
                  /\ \A k \in 1..(Len(m.hex) - 1) :
                        ~(/\ IsWs(text[m.start + k])
                          /\ text[m.start + k + 1] \in {"*", " "})
        /\ \A i, j \in 1..Len(matches) :
              i < j => matches[i].stop <= matches[j].start
        /\ vpc = "hash" =>
              \A n \in DOMAIN expected_hashes :
                 LET m == matches[LastIndex(paths, n)]
                 IN  /\ (expected_hashes[n].mode = <<"b">>) = (m.mode = "*")
                     /\ (expected_hashes[n].mode = <<"t">>) = (m.mode = " ")

\* C4: the reconciliation pass never raises, and when it is over every
\* expected name is in one of the three lists.
C4_ReconcileNeverRaises ==
    /\ vpc # "KeyError"
    /\ vpc = "reported" =>
          \A n \in DOMAIN expected_hashes :
              \/ n \in Range(ok)
              \/ n \in Range(mismatch)
              \/ \E i \in 1..Len(error) : error[i].filename = n

\* C5: an expected hex that equals the computed digest up to letter case is
\* classified OK.
C5_CaseInsensitiveMatch ==
    vpc = "reported" =>
        \A n \in DOMAIN expected_hashes :
            (/\ n \in DOMAIN actual_hashes
             /\ actual_hashes[n].err = None
             /\ Lower(expected_hashes[n].hex) = Lower(actual_hashes[n].hex))
            => (n \in Range(ok) /\ n \notin Range(mismatch))

ErrorNames == [i \in 1..Len(error) |-> error[i].filename]

\* the number of lists among ok, error, mismatch that hold n, with repeats
Placements(n) == CountIn(ok, n) + CountIn(ErrorNames, n) + CountIn(mismatch, n)

\* C6 as claimed: the reported counts add up to the reported total, which is
\* the number of manifest records, each record classified exactly once.
C6_TotalsCountRecords ==
    vpc = "reported" =>
        /\ reported.ok + reported.error + reported.mismatch = reported.total
        /\ reported.total = Len(matches)
        /\ \A i \in 1..Len(matches) : Placements(matches[i].input_name) = 1

\* C6 as amended: when the totals are reported, every distinct manifest name
\* is in exactly one of ok / error / mismatch (error iff its actual result
\* carries an error, otherwise ok iff the hex of the last manifest record of
\* that name equals the actual hex, otherwise mismatch), and the counts add
\* up to the reported total, which is the number of distinct names.
C6_TotalsCountDistinctNames ==
    vpc = "reported" =>
        /\ reported.ok + reported.error + reported.mismatch = reported.total
        /\ reported.total = Cardinality({matches[i].input_name :
                                            i \in 1..Len(matches)})
        /\ \A i \in 1..Len(matches) :
              LET n == matches[i].input_name
                  last == matches[LastIndex(
                             [j \in 1..Len(matches) |-> matches[j].input_name],
                             n)]
                  actual == Process(n)
              IN  /\ Placements(n) = 1
                  /\ actual.tag = "Hashed"
                  /\ (CountIn(ErrorNames, n) = 1) = (actual.err # None)
                  /\ (CountIn(ok, n) = 1) =
                        (actual.err = None /\ last.hex = actual.hex)
                  /\ (CountIn(mismatch, n) = 1) =
                        (actual.err = None /\ last.hex # actual.hex)

\* C6's case: totals reported for a manifest that lists one name twice, with
\* different hex values.
C6_Witness ==
    /\ vpc = "reported"
    /\ Len(matches) = 2
    /\ matches[1].input_name = matches[2].input_name
    /\ matches[1].hex # matches[2].hex
    /\ reported.total = 1

====
